---- MODULE Spec2Model ----
\* A model of rnaseqlib/bindnseq/BindnSeq.py: ranking of kmers by enrichment,
\* percentile selection, per-region density scoring and BED projection.
\*
\* Numbers.  Odds ratios are floating point in the program.  The model keeps
\* them exact on a fixed-point grid: a concentration value v stands for the
\* real v / FCUnit, a rank (max or mean over the concentration columns) r
\* stands for r / RankUnit, and a percentile cutoff c for c / CutoffUnit.
\* Densities and fold changes that leave the grid are exact rationals.
\*
\* Specifications.  Spec is the ranking and selection of one loaded table;
\* SpecDensity is the scoring of one region file by
\* add_rank_weighted_densities; SpecBed is the BED output of one region file.
\* The last two start from the enriched kmers the first one produces.
EXTENDS Integers, Sequences, FiniteSets, TLC

VARIABLES
    pc,                 \* position of the run
    kmer_len,           \* kmer length of the table being processed
    odds_ratios,        \* self.odds_ratios[kmer_len]: rows in load order
    method,             \* the 'method' argument of rank_enriched_kmers
    ranked_or_df,       \* the DataFrame rank_enriched_kmers returns
    percentile_cutoff,  \* the percentile get_fc_cutoff was called with
    fold_cutoff,        \* the value get_fc_cutoff returned
    enriched_kmers,     \* the DataFrame get_enriched_kmers_df returns
    fc_rank,            \* add_rank_weighted_densities: the fc_rank argument
    subseq_densities,   \* rows of the densities DataFrame iterated so far
    weighted_densities, \* add_rank_weighted_densities: local list
    max_kmer_fcs,       \* add_rank_weighted_densities: local list
    density_cols,       \* the columns added at lines 549-550 (<<>>: not added)
    density_file,       \* TRUE once to_csv wrote the summary file
    enriched_kmer_to_fc,\* output_enriched_kmers_as_bed: kmer -> fold change
    seqs,               \* fasta_counter.seqs entries iterated so far
    bed_file,           \* bed_output_fname: whether it exists, and its lines
    kmer_score,         \* output_enriched_kmers_as_bed: local, last value
    kmer_color,         \* output_enriched_kmers_as_bed: local, last value
    fold_enriched_cutoff,\* run_meme_on_enriched_kmers: the cutoff argument
    len_to_output,      \* run_meme_on_enriched_kmers: the length argument
    lens_left,          \* run_meme_on_enriched_kmers: lengths still to loop over
    seqs_out,           \* the lines written to self.seqs_fname
    meme_output         \* whether the MEME output directory was seen to hold files

vars == <<pc, kmer_len, odds_ratios, method, ranked_or_df, percentile_cutoff,
          fold_cutoff, enriched_kmers, fc_rank, subseq_densities,
          weighted_densities, max_kmer_fcs, density_cols, density_file,
          enriched_kmer_to_fc, seqs, bed_file, kmer_score, kmer_color,
          fold_enriched_cutoff, len_to_output, lens_left, seqs_out,
          meme_output>>

rankVars == <<kmer_len, odds_ratios, method, ranked_or_df, percentile_cutoff,
              fold_cutoff, enriched_kmers>>
densVars == <<fc_rank, subseq_densities, weighted_densities, max_kmer_fcs,
              density_cols, density_file>>
bedVars == <<enriched_kmer_to_fc, seqs, bed_file, kmer_score, kmer_color>>
memeVars == <<fold_enriched_cutoff, len_to_output, lens_left, seqs_out,
              meme_output>>

-----------------------------------------------------------------------------
\* Bounds of the model

\* grid resolution of the concentration values (v stands for v / FCUnit)
FCUnit == 2
\* largest number of kmers in a loaded table
MaxKmers == 3

-----------------------------------------------------------------------------
\* Generic helpers

None == "None"

\* a path at which there is no file
NoFile == [exists |-> FALSE, lines |-> <<>>]

Range(s) == {s[i] : i \in 1..Len(s)}

RECURSIVE SumSeq(_)
SumSeq(s) == IF s = <<>> THEN 0 ELSE Head(s) + SumSeq(Tail(s))

MaxOf(S) == CHOOSE x \in S : \A y \in S : y <= x

\* the i-th smallest element (1-based) of the values of s, as a sort places it
KthSmallest(s, i) ==
    CHOOSE v \in Range(s) :
        /\ Cardinality({j \in 1..Len(s) : s[j] < v}) < i
        /\ i <= Cardinality({j \in 1..Len(s) : s[j] <= v})

\* all orders (sequences of row indices) of the rows 1..n
Perms(n) == {f \in [1..n -> 1..n] : \A i, j \in 1..n : f[i] = f[j] => i = j}

-----------------------------------------------------------------------------
\* The odds-ratio tables

\* self.kmer_lens = [4, 5, 6, 7, 8, 9], of which the model loads the two
\* extremes; every kmer length of the program is below min_seq_len
KmerLens == {4, 9}

Alphabet == <<"A", "C", "G", "T">>

RECURSIVE Rep(_, _)
Rep(c, k) == IF k = 0 THEN "" ELSE c \o Rep(c, k - 1)

\* the kmer of the i-th row of a table of kmer length k
KmerName(i, k) == Rep(Alphabet[((i - 1) % Len(Alphabet)) + 1], k)

\* the concentration columns of one row (two columns ending in "nM")
ConcRows == { <<10 * FCUnit, 4 * FCUnit>>,
              <<4 * FCUnit, FCUnit>>,
              <<2 * FCUnit, 2 * FCUnit>>,
              <<FCUnit, FCUnit \div 2>> }

\* get_conc_cols: the number of concentration columns of the table
NumConc == Len(CHOOSE r \in ConcRows : TRUE)

\* a rank r stands for the real r / RankUnit
RankUnit == FCUnit * NumConc

\* the tables load_odds_ratios can produce for kmer length k
Tables(k) ==
    UNION { { [i \in 1..n |-> [kmer |-> KmerName(i, k), conc |-> c[i]]] :
              c \in [1..n -> ConcRows] } : n \in 1..MaxKmers }

Methods == {"max", "mean", "median"}

-----------------------------------------------------------------------------
\* rank_enriched_kmers

\* the 'rank' column (lines 133-140), in units of 1 / RankUnit
rank_col(conc, m) ==
    IF m = "max" THEN MaxOf(Range(conc)) * NumConc ELSE SumSeq(conc)

\* Series.rank(ascending=False, method="min") (lines 149-151)
ordinal_rank_mut(ranks, i) == i
ordinal_rank(ranks, i) ==
    1 + Cardinality({j \in 1..Len(ranks) : ranks[j] > ranks[i]})

\* the rows with their rank column, in load order (lines 132-140)
with_rank(or_df, m) ==
    [i \in 1..Len(or_df) |->
        [kmer |-> or_df[i].kmer, conc |-> or_df[i].conc,
         rank |-> rank_col(or_df[i].conc, m)]]

\* DataFrame.sort(columns=[rank_col], ascending=False) (lines 145-147): the
\* default sort kind is not stable, so rows of equal rank come in any order
sort_orders_mut(df) ==
    {f \in Perms(Len(df)) :
        \A i, j \in 1..Len(df) : i < j => df[f[i]].rank <= df[f[j]].rank}
sort_orders(df) ==
    {f \in Perms(Len(df)) :
        \A i, j \in 1..Len(df) : i < j => df[f[i]].rank >= df[f[j]].rank}

\* the DataFrame returned for one of the sort's orders (lines 144-152)
ranked_df(or_df, m, f) ==
    LET df == with_rank(or_df, m)
        sorted == [i \in 1..Len(df) |-> df[f[i]]]
        ranks == [i \in 1..Len(df) |-> sorted[i].rank]
    IN  [i \in 1..Len(df) |->
            [kmer |-> sorted[i].kmer, conc |-> sorted[i].conc,
             rank |-> sorted[i].rank,
             ordinal_rank |-> ordinal_rank(ranks, i)]]

-----------------------------------------------------------------------------
\* get_fc_cutoff and get_enriched_kmers_df

\* the percentiles get_fc_cutoff is called with.  98 is the default and the
\* one get_enriched_kmers_df passes (line 223); on a table of 4^k kmers it
\* keeps several distinct ranks, which on the few rows of a model table the
\* lower percentiles do
Percentiles == {0, 50, 98, 100}

\* a cutoff c stands for the real c / CutoffUnit
CutoffUnit == 100 * RankUnit

\* np.percentile(or_df["rank"], percentile_cutoff) (line 213): linear
\* interpolation between the order statistics around p/100 * (n - 1)
get_fc_cutoff_mut(df, p) ==
    LET ranks == [i \in 1..Len(df) |-> df[i].rank]
        pos == (100 - p) * (Len(df) - 1)
        lo == (pos \div 100) + 1
        hi == IF lo < Len(df) THEN lo + 1 ELSE lo
    IN  100 * KthSmallest(ranks, lo)
          + (pos % 100) * (KthSmallest(ranks, hi) - KthSmallest(ranks, lo))
get_fc_cutoff(df, p) ==
    LET ranks == [i \in 1..Len(df) |-> df[i].rank]
        pos == p * (Len(df) - 1)
        lo == (pos \div 100) + 1
        hi == IF lo < Len(df) THEN lo + 1 ELSE lo
    IN  100 * KthSmallest(ranks, lo)
          + (pos % 100) * (KthSmallest(ranks, hi) - KthSmallest(ranks, lo))

\* ranked_kmers[ranked_kmers["rank"] >= fold_cutoff] (line 226)
meets_cutoff_mut(row, cutoff) == row.rank * 100 > cutoff
meets_cutoff(row, cutoff) == row.rank * 100 >= cutoff

select_enriched(df, cutoff) == SelectSeq(df, LAMBDA row : meets_cutoff(row, cutoff))

-----------------------------------------------------------------------------
\* The ranking run: load, rank, cutoff, select

NoDensity ==
    /\ fc_rank = <<>>
    /\ subseq_densities = <<>>
    /\ weighted_densities = <<>>
    /\ max_kmer_fcs = <<>>
    /\ density_cols = <<>>
    /\ density_file = FALSE

NoBed ==
    /\ enriched_kmer_to_fc = <<>>
    /\ seqs = <<>>
    /\ bed_file = NoFile
    /\ kmer_score = None
    /\ kmer_color = None

NoMeme ==
    /\ fold_enriched_cutoff = None
    /\ len_to_output = None
    /\ lens_left = <<>>
    /\ seqs_out = <<>>
    /\ meme_output = FALSE

\* after load_odds_ratios: one table loaded, nothing ranked yet
Init ==
    /\ pc = "loaded"
    /\ kmer_len \in KmerLens
    /\ odds_ratios \in Tables(kmer_len)
    /\ method = None
    /\ ranked_or_df = <<>>
    /\ percentile_cutoff = None
    /\ fold_cutoff = None
    /\ enriched_kmers = <<>>
    /\ NoDensity
    /\ NoBed
    /\ NoMeme

\* rank_enriched_kmers with a known method (lines 130-152)
RankEnrichedKmers ==
    /\ pc = "loaded"
    /\ \E m \in {"max", "mean"} :
       \E f \in sort_orders(with_rank(odds_ratios, m)) :
          /\ method' = m
          /\ ranked_or_df' = ranked_df(odds_ratios, m, f)
    /\ pc' = "ranked"
    /\ UNCHANGED <<kmer_len, odds_ratios, percentile_cutoff, fold_cutoff,
                   enriched_kmers>>
    /\ UNCHANGED densVars
    /\ UNCHANGED bedVars
    /\ UNCHANGED memeVars

\* rank_enriched_kmers with an unknown method (lines 141-143): the call does
\* not return (line 142 raises on the misspelt logger method, line 143 exits)
RankUnknownMethod ==
    /\ pc = "loaded"
    /\ \E m \in Methods \ {"max", "mean"} : method' = m
    /\ pc' = "exit"
    /\ UNCHANGED <<kmer_len, odds_ratios, ranked_or_df, percentile_cutoff,
                   fold_cutoff, enriched_kmers>>
    /\ UNCHANGED densVars
    /\ UNCHANGED bedVars
    /\ UNCHANGED memeVars

\* get_fc_cutoff (lines 208-214)
GetFcCutoff ==
    /\ pc = "ranked"
    /\ \E p \in Percentiles :
          /\ percentile_cutoff' = p
          /\ fold_cutoff' = get_fc_cutoff(ranked_or_df, p)
    /\ pc' = "cutoff"
    /\ UNCHANGED <<kmer_len, odds_ratios, method, ranked_or_df, enriched_kmers>>
    /\ UNCHANGED densVars
    /\ UNCHANGED bedVars
    /\ UNCHANGED memeVars

\* get_enriched_kmers_df: the selection and return (lines 225-227)
GetEnrichedKmersDf ==
    /\ pc = "cutoff"
    /\ enriched_kmers' = select_enriched(ranked_or_df, fold_cutoff)
    /\ pc' = "enriched"
    /\ UNCHANGED <<kmer_len, odds_ratios, method, ranked_or_df,
                   percentile_cutoff, fold_cutoff>>
    /\ UNCHANGED densVars
    /\ UNCHANGED bedVars
    /\ UNCHANGED memeVars

Next ==
    \/ RankEnrichedKmers
    \/ RankUnknownMethod
    \/ GetFcCutoff
    \/ GetEnrichedKmersDf

Spec == Init /\ [][Next]_vars

-----------------------------------------------------------------------------
\* Numbers of the density stage

\* FC_FILTER = 2.0
FC_FILTER == 2
\* KB = 1000.0
KB == 1000
\* min_seq_len=15
min_seq_len == 15

\* a finite float as an exact fraction num / den with den > 0; the division
\* by a zero length also yields the floats inf and nan
Fin(n, d) == [kind |-> "fin", num |-> n, den |-> d]
Inf == [kind |-> "inf", num |-> 1, den |-> 1]
NaN == [kind |-> "nan", num |-> 0, den |-> 1]

\* min_density_val=2**(-8)
min_density_val == Fin(1, 2 ^ 8)

\* a > b on floats: every comparison with nan is false
FloatGT(a, b) ==
    CASE a.kind = "nan" \/ b.kind = "nan" -> FALSE
      [] a.kind = "inf" -> b.kind # "inf"
      [] b.kind = "inf" -> FALSE
      [] OTHER -> a.num * b.den > b.num * a.den

FloatGE(a, b) ==
    CASE a.kind = "nan" \/ b.kind = "nan" -> FALSE
      [] a.kind = "inf" -> TRUE
      [] b.kind = "inf" -> FALSE
      [] OTHER -> a.num * b.den >= b.num * a.den

FloatEQ(a, b) == FloatGE(a, b) /\ FloatGE(b, a)

\* Python's max(a, b): a, unless b > a
py_max_mut(a, b) == a
py_max(a, b) == IF FloatGT(b, a) THEN b ELSE a

\* floor(log2(n / d)) for n, d > 0
RECURSIVE FloorLog2(_, _)
FloorLog2(n, d) ==
    IF n >= d
    THEN (IF n >= 2 * d THEN 1 + FloorLog2(n, 2 * d) ELSE 0)
    ELSE FloorLog2(2 * n, d) - 1

\* np.log2 (line 549): the result is kept as its integer part "floor" and
\* whether it is that integer exactly; log2 of inf is inf, of nan or of a
\* number below 0 is nan, of 0 is -inf
np_log2(x) ==
    CASE x.kind = "nan" -> [kind |-> "nan", floor |-> 0, exact |-> FALSE]
      [] x.kind = "inf" -> [kind |-> "inf", floor |-> 0, exact |-> FALSE]
      [] x.num < 0 -> [kind |-> "nan", floor |-> 0, exact |-> FALSE]
      [] x.num = 0 -> [kind |-> "-inf", floor |-> 0, exact |-> FALSE]
      [] OTHER ->
            LET e == FloorLog2(x.num, x.den)
            IN  [kind |-> "fin", floor |-> e,
                 exact |-> IF e >= 0 THEN x.num = x.den * 2 ^ e
                                     ELSE x.num * 2 ^ (0 - e) = x.den]

\* int() of a decimal numeral, given as its sequence of digit characters
DigitVal(c) ==
    CASE c = "0" -> 0 [] c = "1" -> 1 [] c = "2" -> 2 [] c = "3" -> 3
      [] c = "4" -> 4 [] c = "5" -> 5 [] c = "6" -> 6 [] c = "7" -> 7
      [] c = "8" -> 8 [] c = "9" -> 9

RECURSIVE IntOfDigits(_)
IntOfDigits(ds) ==
    IF ds = <<>> THEN 0
    ELSE 10 * IntOfDigits(SubSeq(ds, 1, Len(ds) - 1)) + DigitVal(ds[Len(ds)])

\* parse_counts (lines 489-493): the comma-separated field, already split
parse_counts(counts) == [i \in 1..Len(counts) |-> IntOfDigits(counts[i])]

-----------------------------------------------------------------------------
\* add_rank_weighted_densities: one row of the loop (lines 510-547)

\* counts_not_met_inds (line 518), 1-based
counts_not_met_inds_mut(fc) ==
    {i \in 1..Len(fc) : fc[i] <= FC_FILTER * RankUnit}
counts_not_met_inds(fc) ==
    {i \in 1..Len(fc) : fc[i] < FC_FILTER * RankUnit}

\* obs_counts after line 524
suppressed_counts(fc, obs) ==
    [i \in 1..Len(obs) |-> IF i \in counts_not_met_inds(fc) THEN 0 ELSE obs[i]]

\* nonzero_kmer_inds (line 535): read from obs_counts as line 524 left it
nonzero_kmer_inds(fc, obs) ==
    {i \in 1..Len(obs) : suppressed_counts(fc, obs)[i] >= 1}

\* the row raises IndexError: line 524 writes past the end of obs_counts, or
\* line 540 reads past the end of fc_rank
row_raises(fc, obs) ==
    \/ \E i \in counts_not_met_inds(fc) : i > Len(obs)
    \/ \E i \in nonzero_kmer_inds(fc, obs) : i > Len(fc)

\* np.sum(obs_counts / len_denom) (lines 527-532), len_denom = d / KB
sum_norm_density(counts, d) ==
    CASE d > 0 -> Fin(SumSeq(counts) * KB, d)
      [] d < 0 -> Fin(0 - SumSeq(counts) * KB, 0 - d)
      [] OTHER -> IF \E i \in 1..Len(counts) : counts[i] = 0
                  THEN NaN ELSE Inf

\* the short-region test (line 541)
too_short_mut(seq_len) == FALSE
too_short(seq_len) == seq_len < min_seq_len

\* weighted_density as appended at line 546
row_weighted_density(fc, k, row) ==
    LET counts == suppressed_counts(fc, parse_counts(row.obs_counts))
        d == row.seq_len - k + 1
    IN  IF too_short(row.seq_len) THEN min_density_val
        ELSE py_max(sum_norm_density(counts, d), min_density_val)

\* max_kmer_fc as appended at line 547
row_max_kmer_fc(fc, k, row) ==
    LET inds == nonzero_kmer_inds(fc, parse_counts(row.obs_counts))
    IN  IF too_short(row.seq_len) \/ inds = {} THEN min_density_val
        ELSE Fin(MaxOf({fc[i] : i \in inds}), RankUnit)

-----------------------------------------------------------------------------
\* The scoring of one region file: the call of add_rank_weighted_densities
\* from output_enriched_kmers_scores and the summary file written after it

\* largest number of rows (sequences) of a region file
MaxRegions == 1

\* the fc_rank vectors get_enriched_kmers_df hands over for kmer length k
EnrichedRanks(k) ==
    { LET df == ranked_df(t, m, CHOOSE f \in sort_orders(with_rank(t, m)) : TRUE)
          e == select_enriched(df, get_fc_cutoff(df, p))
      IN  [i \in 1..Len(e) |-> e[i].rank] :
      t \in Tables(k), m \in {"max", "mean"}, p \in Percentiles }

\* the sequence lengths of the rows: around the kmer length, where the
\* length denominator changes sign, and around min_seq_len
SeqLens(k) == {k - 2, k - 1, min_seq_len - 1, min_seq_len, min_seq_len + 5}

\* the observed-count fields of the rows: for n enriched kmers the sequence
\* counter returns n counts; vectors one shorter and one longer are the
\* mismatched inputs.  All zero, all two, only the first or only the last two.
ObsCounts(n) ==
    UNION { { [i \in 1..len |-> <<"0">>],
              [i \in 1..len |-> <<"2">>],
              [i \in 1..len |-> IF i = 1 THEN <<"2">> ELSE <<"0">>],
              [i \in 1..len |-> IF i = len THEN <<"2">> ELSE <<"0">>] } :
            len \in {l \in (n - 1)..(n + 1) : l >= 1} }

NoRanking ==
    /\ odds_ratios = <<>>
    /\ method = None
    /\ ranked_or_df = <<>>
    /\ percentile_cutoff = None
    /\ fold_cutoff = None
    /\ enriched_kmers = <<>>

\* at the call of add_rank_weighted_densities (line 297); of the ranking only
\* the rank column of the enriched kmers is kept
InitDensity ==
    /\ pc = "add_rank"
    /\ kmer_len \in KmerLens
    /\ fc_rank \in EnrichedRanks(kmer_len)
    /\ subseq_densities = <<>>
    /\ weighted_densities = <<>>
    /\ max_kmer_fcs = <<>>
    /\ density_cols = <<>>
    /\ density_file = FALSE
    /\ NoRanking
    /\ NoBed
    /\ NoMeme

\* one iteration of the loop over the rows (lines 510-547)
AddRankRow ==
    /\ pc = "add_rank"
    /\ Len(subseq_densities) < MaxRegions
    /\ \E len \in SeqLens(kmer_len), counts \in ObsCounts(Len(fc_rank)) :
          LET row == [seq_len |-> len, obs_counts |-> counts]
          IN  /\ ~row_raises(fc_rank, parse_counts(counts))
              /\ subseq_densities' = Append(subseq_densities, row)
              /\ weighted_densities' =
                    Append(weighted_densities,
                           row_weighted_density(fc_rank, kmer_len, row))
              /\ max_kmer_fcs' =
                    Append(max_kmer_fcs, row_max_kmer_fc(fc_rank, kmer_len, row))
    /\ UNCHANGED <<pc, fc_rank, density_cols, density_file, kmer_len>>
    /\ UNCHANGED <<odds_ratios, method, ranked_or_df, percentile_cutoff,
                   fold_cutoff, enriched_kmers>>
    /\ UNCHANGED bedVars
    /\ UNCHANGED memeVars

\* an iteration that raises IndexError (line 524 or line 540): the exception
\* leaves add_rank_weighted_densities and output_enriched_kmers_scores
AddRankRowRaises ==
    /\ pc = "add_rank"
    /\ Len(subseq_densities) < MaxRegions
    /\ \E len \in SeqLens(kmer_len), counts \in ObsCounts(Len(fc_rank)) :
          /\ row_raises(fc_rank, parse_counts(counts))
          /\ subseq_densities' =
                Append(subseq_densities, [seq_len |-> len, obs_counts |-> counts])
    /\ pc' = "IndexError"
    /\ UNCHANGED <<fc_rank, weighted_densities, max_kmer_fcs, density_cols,
                   density_file, kmer_len>>
    /\ UNCHANGED <<odds_ratios, method, ranked_or_df, percentile_cutoff,
                   fold_cutoff, enriched_kmers>>
    /\ UNCHANGED bedVars
    /\ UNCHANGED memeVars

\* the end of the loop and the return (lines 548-551)
AddRankReturn ==
    /\ pc = "add_rank"
    /\ density_cols' =
          [log2_weighted_density |->
              [i \in 1..Len(weighted_densities) |-> np_log2(weighted_densities[i])],
           max_kmer_fc |-> max_kmer_fcs]
    /\ pc' = "returned"
    /\ UNCHANGED <<fc_rank, subseq_densities, weighted_densities, max_kmer_fcs,
                   density_file, kmer_len>>
    /\ UNCHANGED <<odds_ratios, method, ranked_or_df, percentile_cutoff,
                   fold_cutoff, enriched_kmers>>
    /\ UNCHANGED bedVars
    /\ UNCHANGED memeVars

\* subseq_densities.to_csv (lines 304-307)
OutputSummary ==
    /\ pc = "returned"
    /\ density_file' = TRUE
    /\ pc' = "written"
    /\ UNCHANGED <<fc_rank, subseq_densities, weighted_densities, max_kmer_fcs,
                   density_cols, kmer_len>>
    /\ UNCHANGED <<odds_ratios, method, ranked_or_df, percentile_cutoff,
                   fold_cutoff, enriched_kmers>>
    /\ UNCHANGED bedVars
    /\ UNCHANGED memeVars

NextDensity ==
    \/ AddRankRow
    \/ AddRankRowRaises
    \/ AddRankReturn
    \/ OutputSummary

SpecDensity == InitDensity /\ [][NextDensity]_vars

-----------------------------------------------------------------------------
\* rescale_score and the conversions of output_enriched_kmers_as_bed

\* fc_ceiling = 4
fc_ceiling == 4

\* rescale_score (lines 50-55) of the fold change fc / RankUnit; the fold
\* change is a float, so the division is a true division
rescale_score(fc, OldMin, OldMax, NewMin, NewMax) ==
    Fin((fc - OldMin * RankUnit) * (NewMax - NewMin)
            + NewMin * (OldMax - OldMin) * RankUnit,
        (OldMax - OldMin) * RankUnit)

\* Python's min(a, b): a, unless b < a
py_min_mut(a, b) == a
py_min(a, b) == IF FloatGT(a, b) THEN b ELSE a

\* int() of a finite float: truncation towards zero
py_int(x) ==
    IF x.num >= 0 THEN x.num \div x.den ELSE 0 - ((0 - x.num) \div x.den)

\* kmer_score (lines 450-455)
bed_score(fc) ==
    py_int(py_min(rescale_score(fc, 1, fc_ceiling, 1, 1000), Fin(1000, 1)))

\* kmer_color (lines 457-461)
bed_color(fc) ==
    py_int(py_min(rescale_score(fc, 1, fc_ceiling, 1, 255), Fin(255, 1)))

DigitChars == <<"0", "1", "2", "3", "4", "5", "6", "7", "8", "9">>

\* str() of a natural number, as its sequence of digit characters
RECURSIVE DigitsOfNat(_)
DigitsOfNat(n) ==
    IF n < 10 THEN <<DigitChars[n + 1]>>
    ELSE Append(DigitsOfNat(n \div 10), DigitChars[(n % 10) + 1])

\* str() of an integer
py_str(n) == IF n < 0 THEN <<"-">> \o DigitsOfNat(0 - n) ELSE DigitsOfNat(n)

\* int() of a numeral with an optional sign
py_int_of_str(ds) ==
    IF ds # <<>> /\ Head(ds) = "-" THEN 0 - IntOfDigits(Tail(ds))
    ELSE IntOfDigits(ds)

\* the end coordinate of an occurrence on the minus strand (line 465), from
\* the 0-based start offset
minus_end_mut(seq_end, offset) == py_int_of_str(seq_end) - (offset + 1)
minus_end(seq_end, offset) == py_int_of_str(seq_end) - (offset + 1) + 1

\* the BED line of one occurrence on the minus strand (lines 462-485)
bed_line(seq, kmer_seq, offset, fcs) ==
    LET kmer_end_in_seq == minus_end(seq.seq_end, offset)
        kmer_start_in_seq == kmer_end_in_seq - Len(kmer_seq)
    IN  [chrom |-> seq.chrom,
         chromStart |-> py_str(kmer_start_in_seq),
         chromEnd |-> py_str(kmer_end_in_seq),
         name |-> kmer_seq,
         score |-> py_str(bed_score(fcs[kmer_seq])),
         strand |-> seq.strand,
         thickStart |-> py_str(kmer_start_in_seq),
         thickEnd |-> py_str(kmer_end_in_seq)]

\* the lines written for one sequence (lines 424-485): one per occurrence of
\* each kmer, and none for a sequence that is not on the minus strand
RECURSIVE seq_lines(_, _, _)
seq_lines(seq, starts, fcs) ==
    IF starts = <<>> THEN <<>>
    ELSE (IF seq.strand = "-"
          THEN [j \in 1..Len(Head(starts).kmer_starts) |->
                   bed_line(seq, Head(starts).kmer_seq,
                            Head(starts).kmer_starts[j], fcs)]
          ELSE <<>>)
         \o seq_lines(seq, Tail(starts), fcs)

\* the kmers whose occurrences the loop went through, in order
occurring(starts) == SelectSeq(starts, LAMBDA e : e.kmer_starts # <<>>)

\* the BED Detail header (lines 403-406)
bed_header(track_desc, db) ==
    [track |-> track_desc, description |-> track_desc, useScore |-> 1,
     db |-> db, visibility |-> 3]

-----------------------------------------------------------------------------
\* The BED output of one region file: calls of output_enriched_kmers_as_bed
\* with the same bed_output_fname

\* largest number of sequences of a region file
MaxSeqs == 1

\* enriched_kmers[["kmer", "rank"]] (line 273): the two columns the BED
\* output reads
kmer_and_rank(df) ==
    [i \in 1..Len(df) |-> [kmer |-> df[i].kmer, rank |-> df[i].rank]]

\* the enriched tables get_enriched_kmers_df hands over for kmer length k
EnrichedSets(k) ==
    UNION { { LET df == ranked_df(t, m, f)
              IN  kmer_and_rank(select_enriched(df, get_fc_cutoff(df, p))) :
              f \in sort_orders(with_rank(t, m)), p \in Percentiles } :
            t \in Tables(k), m \in {"max", "mean"} }

\* enriched_kmer_to_fc (lines 272-273)
kmer_to_fc(df) ==
    [kmer \in {df[i].kmer : i \in 1..Len(df)} |->
        (CHOOSE row \in Range(df) : row.kmer = kmer).rank]

\* the sequence names of the FASTA file, split into chromosome, start, end
\* and strand (lines 419-421)
SeqNames ==
    { [chrom |-> "chrom1", seq_start |-> <<"1", "0", "0">>,
       seq_end |-> <<"2", "0", "0">>, strand |-> "-"],
      [chrom |-> "chrom1", seq_start |-> <<"1", "0", "0">>,
       seq_end |-> <<"2", "0", "0">>, strand |-> "+"],
      [chrom |-> "chrom2", seq_start |-> <<"9", "0", "0">>,
       seq_end |-> <<"1", "0", "0", "0">>, strand |-> "-"] }

\* what count_subseqs_with_starts finds in a sequence, for the kmers in the
\* order given: nothing, the first kmer at offset 5, or every kmer twice
StartsFound(kmers) ==
    { [i \in 1..Len(kmers) |-> [kmer_seq |-> kmers[i], kmer_starts |-> <<>>]],
      [i \in 1..Len(kmers) |->
          [kmer_seq |-> kmers[i],
           kmer_starts |-> IF i = 1 THEN <<5>> ELSE <<>>]],
      [i \in 1..Len(kmers) |->
          [kmer_seq |-> kmers[i],
           kmer_starts |-> <<20 * (i - 1), 20 * (i - 1) + 10>>]] }

\* the BED file an earlier run left at bed_output_fname, its region file
\* having held no sequence then
EarlierBedFile ==
    [exists |-> TRUE, lines |-> <<bed_header("BNS enriched kmers", "mm9")>>]

\* at the call of output_enriched_kmers_as_bed (line 324); of the ranking
\* only the kmer and rank columns of the enriched table are kept
InitBed ==
    /\ pc = "bed_call"
    /\ kmer_len \in KmerLens
    /\ enriched_kmers \in EnrichedSets(kmer_len)
    /\ enriched_kmer_to_fc = kmer_to_fc(enriched_kmers)
    /\ seqs = <<>>
    /\ bed_file \in {NoFile, EarlierBedFile}
    /\ kmer_score = None
    /\ kmer_color = None
    /\ odds_ratios = <<>>
    /\ method = None
    /\ ranked_or_df = <<>>
    /\ percentile_cutoff = None
    /\ fold_cutoff = None
    /\ NoDensity
    /\ NoMeme

\* os.path.isfile(bed_output_fname) (line 396)
bed_found_mut(file) == FALSE
bed_found(file) == file.exists

\* output_enriched_kmers_as_bed is called once per run of the scoring, with
\* the same bed_output_fname in every run
BedCallable == pc \in {"bed_call", "bed_done", "bed_skipped"}

\* a call that finds the BED file (lines 394-398)
BedSkip ==
    /\ BedCallable
    /\ bed_found(bed_file)
    /\ pc' = "bed_skipped"
    /\ UNCHANGED <<enriched_kmer_to_fc, seqs, bed_file, kmer_score, kmer_color>>
    /\ UNCHANGED rankVars
    /\ UNCHANGED densVars
    /\ UNCHANGED memeVars

\* a call that finds no BED file: the file is opened and the header written
\* (lines 394-406)
BedOpen ==
    /\ BedCallable
    /\ ~bed_found(bed_file)
    /\ bed_file' = [exists |-> TRUE,
                     lines |-> <<bed_header("BNS enriched kmers", "mm9")>>]
    /\ seqs' = <<>>
    /\ pc' = "bed_seqs"
    /\ UNCHANGED <<enriched_kmer_to_fc, kmer_score, kmer_color>>
    /\ UNCHANGED rankVars
    /\ UNCHANGED densVars
    /\ UNCHANGED memeVars

\* one iteration of the loop over the sequences (lines 409-485)
BedSeq ==
    /\ pc = "bed_seqs"
    /\ Len(seqs) < MaxSeqs
    /\ \E name \in SeqNames :
       \E starts \in StartsFound([i \in 1..Len(enriched_kmers) |->
                                     enriched_kmers[i].kmer]) :
          LET seq == [chrom |-> name.chrom, seq_start |-> name.seq_start,
                      seq_end |-> name.seq_end, strand |-> name.strand,
                      enriched_kmers_starts |-> starts]
              occ == occurring(starts)
          IN  /\ seqs' = Append(seqs, seq)
              /\ bed_file' =
                    [bed_file EXCEPT !.lines =
                        @ \o seq_lines(seq, starts, enriched_kmer_to_fc)]
              /\ kmer_score' =
                    IF occ = <<>> THEN kmer_score
                    ELSE bed_score(enriched_kmer_to_fc[occ[Len(occ)].kmer_seq])
              /\ kmer_color' =
                    IF occ = <<>> THEN kmer_color
                    ELSE bed_color(enriched_kmer_to_fc[occ[Len(occ)].kmer_seq])
    /\ UNCHANGED <<pc, enriched_kmer_to_fc>>
    /\ UNCHANGED rankVars
    /\ UNCHANGED densVars
    /\ UNCHANGED memeVars

\* the end of the loop: the file is closed (line 486)
BedClose ==
    /\ pc = "bed_seqs"
    /\ pc' = "bed_done"
    /\ UNCHANGED bedVars
    /\ UNCHANGED rankVars
    /\ UNCHANGED densVars
    /\ UNCHANGED memeVars

NextBed ==
    \/ BedSkip
    \/ BedOpen
    \/ BedSeq
    \/ BedClose

SpecBed == InitBed /\ [][NextBed]_vars

-----------------------------------------------------------------------------
\* run_meme_on_enriched_kmers

\* largest number of kmers in a table run_meme_on_enriched_kmers reads
MaxSeedKmers == 2

\* for kmer_len in [4,5,6] (line 179)
meme_kmer_lens == <<4, 5, 6>>

\* the fold_enriched_cutoff argument: the default 2 (line 156) and 4, each
\* the rank of a row of ConcRows and each between two others
FoldCutoffs == {2, 4}

\* the len_to_output argument after lines 171-172: "all", or one kmer length
LensToOutput == { [all |-> TRUE, len |-> 0], [all |-> FALSE, len |-> 5] }

\* the test of lines 180-181 that lets a kmer length through
outputs_len(lto, k) == lto.all \/ lto.len = k

\* the tables self.odds_ratios can hold for kmer length k
SeedTables(k) ==
    UNION { { [i \in 1..n |-> [kmer |-> KmerName(i, k), conc |-> c[i]]] :
              c \in [1..n -> ConcRows] } : n \in 1..MaxSeedKmers }

\* ranked_ratios["rank"] >= fold_enriched_cutoff (line 189)
meets_fold_enriched_mut(row, cutoff) == row.rank > cutoff * RankUnit
meets_fold_enriched(row, cutoff) == row.rank >= cutoff * RankUnit

\* enriched_ratios (lines 188-189)
enriched_ratios(df, cutoff) ==
    SelectSeq(df, LAMBDA row : meets_fold_enriched(row, cutoff))

\* header and seq of one kmer (lines 192-193)
fasta_header(kmer) == ">" \o kmer \o "\n"
fasta_seq(kmer) == kmer \o "\n"

\* the lines the loop of lines 191-195 writes for the rows of df
RECURSIVE fasta_lines(_)
fasta_lines(df) ==
    IF df = <<>> THEN <<>>
    ELSE <<fasta_header(Head(df).kmer), fasta_seq(Head(df).kmer)>>
            \o fasta_lines(Tail(df))

\* at the call of run_meme_on_enriched_kmers
InitMeme ==
    /\ pc = "meme_call"
    /\ fold_enriched_cutoff \in FoldCutoffs
    /\ method \in {"max", "mean"}
    /\ len_to_output \in LensToOutput
    /\ lens_left = <<>>
    /\ seqs_out = <<>>
    /\ meme_output = FALSE
    /\ kmer_len = None
    /\ odds_ratios = <<>>
    /\ ranked_or_df = <<>>
    /\ percentile_cutoff = None
    /\ fold_cutoff = None
    /\ enriched_kmers = <<>>
    /\ NoDensity
    /\ NoBed

\* the FASTA file is opened for writing (lines 162-178)
MemeOpen ==
    /\ pc = "meme_call"
    /\ seqs_out' = <<>>
    /\ lens_left' = meme_kmer_lens
    /\ pc' = "meme_loop"
    /\ UNCHANGED <<fold_enriched_cutoff, len_to_output, meme_output>>
    /\ UNCHANGED rankVars
    /\ UNCHANGED densVars
    /\ UNCHANGED bedVars

\* an iteration for a kmer length that len_to_output leaves out
\* (lines 179-183)
MemeSkipLen ==
    /\ pc = "meme_loop"
    /\ lens_left # <<>>
    /\ ~outputs_len(len_to_output, Head(lens_left))
    /\ kmer_len' = Head(lens_left)
    /\ lens_left' = Tail(lens_left)
    /\ UNCHANGED <<pc, fold_enriched_cutoff, len_to_output, seqs_out,
                   meme_output>>
    /\ UNCHANGED <<odds_ratios, method, ranked_or_df, percentile_cutoff,
                   fold_cutoff, enriched_kmers>>
    /\ UNCHANGED densVars
    /\ UNCHANGED bedVars

\* an iteration for a kmer length whose table is loaded (lines 179-195);
\* rank_enriched_kmers is called without a method, so with method="max"
MemeKmerLen ==
    /\ pc = "meme_loop"
    /\ lens_left # <<>>
    /\ outputs_len(len_to_output, Head(lens_left))
    /\ \E t \in SeedTables(Head(lens_left)) :
       \E f \in sort_orders(with_rank(t, "max")) :
          LET ranked_ratios == ranked_df(t, "max", f)
              enriched == enriched_ratios(ranked_ratios, fold_enriched_cutoff)
          IN  /\ odds_ratios' = t
              /\ ranked_or_df' = ranked_ratios
              /\ enriched_kmers' = enriched
              /\ seqs_out' = seqs_out \o fasta_lines(enriched)
    /\ kmer_len' = Head(lens_left)
    /\ lens_left' = Tail(lens_left)
    /\ UNCHANGED <<pc, fold_enriched_cutoff, len_to_output, meme_output>>
    /\ UNCHANGED <<method, percentile_cutoff, fold_cutoff>>
    /\ UNCHANGED densVars
    /\ UNCHANGED bedVars

\* an iteration for a kmer length that was not loaded: line 184 raises
\* KeyError, the file being left as written so far
MemeKeyError ==
    /\ pc = "meme_loop"
    /\ lens_left # <<>>
    /\ outputs_len(len_to_output, Head(lens_left))
    /\ kmer_len' = Head(lens_left)
    /\ pc' = "KeyError"
    /\ UNCHANGED memeVars
    /\ UNCHANGED <<odds_ratios, method, ranked_or_df, percentile_cutoff,
                   fold_cutoff, enriched_kmers>>
    /\ UNCHANGED densVars
    /\ UNCHANGED bedVars

\* the end of the loop: the file is closed (line 196)
MemeClose ==
    /\ pc = "meme_loop"
    /\ lens_left = <<>>
    /\ pc' = "meme_closed"
    /\ UNCHANGED memeVars
    /\ UNCHANGED rankVars
    /\ UNCHANGED densVars
    /\ UNCHANGED bedVars

\* the MEME output directory, first looked at on line 202, holds files of an
\* earlier run (lines 198-204)
MemeOutputExists ==
    /\ pc = "meme_closed"
    /\ meme_output' = TRUE
    /\ pc' = "meme_skipped"
    /\ UNCHANGED <<fold_enriched_cutoff, len_to_output, lens_left, seqs_out>>
    /\ UNCHANGED rankVars
    /\ UNCHANGED densVars
    /\ UNCHANGED bedVars

\* the MEME output directory is empty: meme_utils.run_meme on the FASTA file
\* (lines 198-205)
RunMeme ==
    /\ pc = "meme_closed"
    /\ meme_output' = TRUE
    /\ pc' = "meme_run"
    /\ UNCHANGED <<fold_enriched_cutoff, len_to_output, lens_left, seqs_out>>
    /\ UNCHANGED rankVars
    /\ UNCHANGED densVars
    /\ UNCHANGED bedVars

NextMeme ==
    \/ MemeOpen
    \/ MemeSkipLen
    \/ MemeKmerLen
    \/ MemeKeyError
    \/ MemeClose
    \/ MemeOutputExists
    \/ RunMeme

SpecMeme == InitMeme /\ [][NextMeme]_vars

-----------------------------------------------------------------------------
\* Claims about the ranking run

Ranked == pc \in {"ranked", "cutoff", "enriched"}

RowSet(df) == Range(df)

\* a finer grid of percentiles, for comparing selections on one table
PercentileGrid == {0, 10, 25, 50, 75, 90, 98, 100}

\* C1: after rank_enriched_kmers, rows of equal rank have equal ordinal_rank,
\* each ordinal_rank is 1 plus the number of rows of strictly greater rank,
\* and, the table being sorted, it is the first position of the tied group.
C1_OrdinalRankMinOfTies ==
    Ranked =>
        \A i \in 1..Len(ranked_or_df) :
            /\ \A j \in 1..Len(ranked_or_df) :
                  ranked_or_df[i].rank = ranked_or_df[j].rank
                      => ranked_or_df[i].ordinal_rank = ranked_or_df[j].ordinal_rank
            /\ ranked_or_df[i].ordinal_rank =
                  1 + Cardinality({j \in 1..Len(ranked_or_df) :
                                      ranked_or_df[j].rank > ranked_or_df[i].rank})
            /\ ranked_or_df[i].ordinal_rank =
                  CHOOSE j \in 1..Len(ranked_or_df) :
                      /\ ranked_or_df[j].rank = ranked_or_df[i].rank
                      /\ \A h \in 1..(j - 1) :
                            ranked_or_df[h].rank # ranked_or_df[i].rank

\* C1 witness: a ranked table of two tied rows above a third: ranks 1, 1, 3
C1_Witness ==
    /\ Ranked
    /\ Len(ranked_or_df) = 3
    /\ ranked_or_df[1].rank = ranked_or_df[2].rank
    /\ ranked_or_df[2].rank > ranked_or_df[3].rank
    /\ ranked_or_df[1].ordinal_rank = 1
    /\ ranked_or_df[2].ordinal_rank = 1
    /\ ranked_or_df[3].ordinal_rank = 3

\* C2: on any ranked table, for percentiles p1 <= p2 the rows selected at p2
\* are among those selected at p1 and are no more numerous; the selection
\* the run made is nested in the same way with every other percentile.
C2_SelectionMonotone ==
    Ranked =>
        /\ \A p1, p2 \in PercentileGrid :
              p1 <= p2 =>
                LET s1 == select_enriched(ranked_or_df, get_fc_cutoff(ranked_or_df, p1))
                    s2 == select_enriched(ranked_or_df, get_fc_cutoff(ranked_or_df, p2))
                IN  /\ RowSet(s2) \subseteq RowSet(s1)
                    /\ Len(s2) <= Len(s1)
        /\ pc = "enriched" =>
              \A p \in PercentileGrid :
                LET s == select_enriched(ranked_or_df, get_fc_cutoff(ranked_or_df, p))
                IN  /\ p >= percentile_cutoff => Len(s) <= Len(enriched_kmers)
                    /\ p <= percentile_cutoff => Len(s) >= Len(enriched_kmers)

\* C2 witness: a run selected at percentile 50, where percentile 0 selects
\* strictly more rows and percentile 98 strictly fewer
C2_Witness ==
    /\ pc = "enriched"
    /\ percentile_cutoff = 50
    /\ Len(select_enriched(ranked_or_df, get_fc_cutoff(ranked_or_df, 0)))
          > Len(enriched_kmers)
    /\ Len(select_enriched(ranked_or_df, get_fc_cutoff(ranked_or_df, 98)))
          < Len(enriched_kmers)

\* the table {AAAA: 10, CCCC: 4, GGGG: 1}, ranked
ScenarioTable ==
    /\ Len(ranked_or_df) = 3
    /\ \E i \in 1..3 : /\ ranked_or_df[i].kmer = "AAAA"
                       /\ ranked_or_df[i].rank = 10 * RankUnit
    /\ \E i \in 1..3 : /\ ranked_or_df[i].kmer = "CCCC"
                       /\ ranked_or_df[i].rank = 4 * RankUnit
    /\ \E i \in 1..3 : /\ ranked_or_df[i].kmer = "GGGG"
                       /\ ranked_or_df[i].rank = RankUnit

\* C3: the cutoff is the linearly interpolated percentile of the rank column
\* (the minimum at 0, the maximum at 100, between the two order statistics
\* around p/100 * (n - 1) otherwise) and the selection keeps, in order, exactly
\* the rows with rank >= cutoff; for {AAAA: 10, CCCC: 4, GGGG: 1} at
\* percentile 50 the cutoff is 4 and the selection is AAAA, CCCC.
C3_CutoffAndSelection ==
    /\ pc \in {"cutoff", "enriched"} =>
          LET ranks == [i \in 1..Len(ranked_or_df) |-> ranked_or_df[i].rank]
              n == Len(ranks)
              below == (percentile_cutoff * (n - 1)) \div 100
              above == IF (percentile_cutoff * (n - 1)) % 100 = 0
                       THEN below ELSE below + 1
          IN  \* the table is sorted descending: position n - i is the
              \* i-th order statistic counted from 0
              /\ 100 * ranks[n - below] <= fold_cutoff
              /\ fold_cutoff <= 100 * ranks[n - above]
              /\ percentile_cutoff = 0 => fold_cutoff = 100 * ranks[n]
              /\ percentile_cutoff = 100 => fold_cutoff = 100 * ranks[1]
              /\ (percentile_cutoff = 50 /\ n = 2)
                    => 2 * fold_cutoff = 100 * (ranks[1] + ranks[2])
    /\ pc = "enriched" =>
          /\ \A i \in 1..Len(ranked_or_df) :
                (ranked_or_df[i] \in Range(enriched_kmers))
                    <=> (100 * ranked_or_df[i].rank >= fold_cutoff)
          /\ Len(enriched_kmers) =
                Cardinality({i \in 1..Len(ranked_or_df) :
                                100 * ranked_or_df[i].rank >= fold_cutoff})
          /\ (ScenarioTable /\ percentile_cutoff = 50) =>
                /\ fold_cutoff = 4 * CutoffUnit
                /\ [i \in 1..Len(enriched_kmers) |-> enriched_kmers[i].kmer]
                      = <<"AAAA", "CCCC">>

\* C3 witness: the scenario table selected at percentile 50
C3_Witness ==
    /\ pc = "enriched"
    /\ ScenarioTable
    /\ percentile_cutoff = 50
    /\ Len(enriched_kmers) = 2

-----------------------------------------------------------------------------
\* Claims about the density stage

\* the rows add_rank_weighted_densities has recorded a result for
Recorded == 1..Len(weighted_densities)

Returned == pc \in {"returned", "written"}

\* C4: every recorded weighted density is at least the floor 2^-8, whatever
\* the row's sequence length, counts and the kmer scores, and so every
\* log2_weighted_density written is a number >= -8.
C4_DensityAtLeastFloor ==
    /\ \A i \in Recorded : FloatGE(weighted_densities[i], min_density_val)
    /\ Returned =>
          /\ Len(density_cols.log2_weighted_density) = Len(subseq_densities)
          /\ \A i \in 1..Len(density_cols.log2_weighted_density) :
                /\ density_cols.log2_weighted_density[i].kind = "fin"
                /\ density_cols.log2_weighted_density[i].floor >= 0 - 8

\* C4 witness: a returned pass with a row of length kmer_len - 1 (the length
\* denominator is zero) whose kmers pass the filter and all occur
C4_Witness ==
    /\ Returned
    /\ \E i \in Recorded :
          /\ subseq_densities[i].seq_len = kmer_len - 1
          /\ Len(subseq_densities[i].obs_counts) = Len(fc_rank)
          /\ \A j \in 1..Len(fc_rank) :
                /\ fc_rank[j] >= FC_FILTER * RankUnit
                /\ subseq_densities[i].obs_counts[j] = <<"2">>
          /\ density_cols.log2_weighted_density[i].floor = 0 - 8

\* C5: every recorded row shorter than min_seq_len has weighted density and
\* max fold change equal to the floor, whatever its counts and the scores, and
\* its log2_weighted_density is exactly -8.
C5_ShortRegionIsFloor ==
    /\ \A i \in Recorded :
          subseq_densities[i].seq_len < min_seq_len =>
              /\ weighted_densities[i] = min_density_val
              /\ max_kmer_fcs[i] = min_density_val
    /\ Returned =>
          \A i \in Recorded :
              subseq_densities[i].seq_len < min_seq_len =>
                  /\ density_cols.max_kmer_fc[i] = min_density_val
                  /\ density_cols.log2_weighted_density[i] =
                        [kind |-> "fin", floor |-> 0 - 8, exact |-> TRUE]

\* C5 witness: a returned pass with a row one base short of min_seq_len, as
\* long as a kmer, in which a kmer that passes the filter occurs
C5_Witness ==
    /\ Returned
    /\ \E i \in Recorded :
          /\ subseq_densities[i].seq_len = min_seq_len - 1
          /\ subseq_densities[i].seq_len >= kmer_len
          /\ Len(subseq_densities[i].obs_counts) = Len(fc_rank)
          /\ \E j \in 1..Len(fc_rank) :
                /\ fc_rank[j] >= FC_FILTER * RankUnit
                /\ subseq_densities[i].obs_counts[j] = <<"2">>

\* the kmers with at least one raw occurrence in a row
RawPresent(row) ==
    {j \in 1..Len(row.obs_counts) : parse_counts(row.obs_counts)[j] >= 1}

\* C6: for a recorded row of at least min_seq_len (with one count per enriched
\* kmer), max_kmer_fc is the largest score among the kmers with a raw count
\* >= 1, those below FC_FILTER included, and is the floor only if no kmer
\* occurs.
C6_MaxFcOverRawOccurrences ==
    \A i \in Recorded :
        (/\ subseq_densities[i].seq_len >= min_seq_len
         /\ Len(subseq_densities[i].obs_counts) = Len(fc_rank)) =>
            IF RawPresent(subseq_densities[i]) = {}
            THEN max_kmer_fcs[i] = min_density_val
            ELSE max_kmer_fcs[i] =
                    Fin(MaxOf({fc_rank[j] : j \in RawPresent(subseq_densities[i])}),
                        RankUnit)

\* C7: whenever a row's count vector is not as long as the enriched kmer set,
\* the pass has failed and produced no density output.
C7_MismatchFails ==
    (\E i \in 1..Len(subseq_densities) :
        Len(subseq_densities[i].obs_counts) # Len(fc_rank)) =>
            /\ pc = "IndexError"
            /\ density_cols = <<>>
            /\ density_file = FALSE

-----------------------------------------------------------------------------
\* Claims about the BED output

BedWritten == bed_file.exists

\* the data lines of the BED file, after the track header
DataLines == Tail(bed_file.lines)

\* the occurrences of a sequence, in the order the loops visit them
RECURSIVE Occurrences(_, _)
Occurrences(seq, starts) ==
    IF starts = <<>> THEN <<>>
    ELSE [j \in 1..Len(Head(starts).kmer_starts) |->
             [chrom |-> seq.chrom, strand |-> seq.strand,
              seq_end |-> seq.seq_end, kmer |-> Head(starts).kmer_seq,
              offset |-> Head(starts).kmer_starts[j]]]
         \o Occurrences(seq, Tail(starts))

\* the occurrences on the minus strand of all sequences gone through
RECURSIVE MinusOccurrences(_)
MinusOccurrences(ss) ==
    IF ss = <<>> THEN <<>>
    ELSE (IF Head(ss).strand = "-"
          THEN Occurrences(Head(ss), Head(ss).enriched_kmers_starts)
          ELSE <<>>)
         \o MinusOccurrences(Tail(ss))

\* C8: the data lines are, in order, one per occurrence in a minus-strand
\* sequence; for end coordinate E, kmer length k and 0-based offset o the line
\* has chromEnd = E - (o + 1) + 1, chromStart = chromEnd - k and thickStart,
\* thickEnd equal to chromStart, chromEnd (chrom1:100-200:-, k = 4, o = 5
\* gives 191 and 195).
C8_MinusStrandInterval ==
    BedWritten =>
        LET occ == MinusOccurrences(seqs)
        IN  /\ Len(DataLines) = Len(occ)
            /\ \A i \in 1..Len(occ) :
                  LET E == py_int_of_str(occ[i].seq_end)
                      k == Len(occ[i].kmer)
                      line == DataLines[i]
                  IN  /\ line.chrom = occ[i].chrom
                      /\ line.name = occ[i].kmer
                      /\ line.strand = "-"
                      /\ py_int_of_str(line.chromEnd) = E - (occ[i].offset + 1) + 1
                      /\ py_int_of_str(line.chromStart)
                            = py_int_of_str(line.chromEnd) - k
                      /\ line.thickStart = line.chromStart
                      /\ line.thickEnd = line.chromEnd
                      /\ (E = 200 /\ k = 4 /\ occ[i].offset = 5) =>
                            /\ line.chromStart = <<"1", "9", "1">>
                            /\ line.chromEnd = <<"1", "9", "5">>

\* C8 witness: the line of chrom1:100-200:-, a 4-mer and offset 5
C8_Witness ==
    /\ BedWritten
    /\ \E i \in 1..Len(DataLines) :
          /\ DataLines[i].chrom = "chrom1"
          /\ DataLines[i].name = "AAAA"
          /\ DataLines[i].strand = "-"
          /\ DataLines[i].chromStart = <<"1", "9", "1">>
          /\ DataLines[i].chromEnd = <<"1", "9", "5">>
          /\ MinusOccurrences(seqs)[i].offset = 5

\* the kmer of the last occurrence the loops went through
LastKmer ==
    LET with == SelectSeq(seqs, LAMBDA q : occurring(q.enriched_kmers_starts) # <<>>)
        occ == occurring(with[Len(with)].enriched_kmers_starts)
    IN  occ[Len(occ)].kmer_seq

SomeOccurrence ==
    \E i \in 1..Len(seqs) : occurring(seqs[i].enriched_kmers_starts) # <<>>

\* C9: a fold change of at least the ceiling 4 gives score 1000 and color
\* 255; below it the map is the linear one from [1, 4] to [1, 1000] and to
\* [1, 255], truncated: 1 gives 1 and 1, 2 gives 334 and 85, 2.5 gives 500 and
\* 128.
C9_RescaleClamped ==
    /\ BedWritten =>
          \A i \in 1..Len(DataLines) :
              LET fc == enriched_kmer_to_fc[DataLines[i].name]
              IN  /\ fc >= fc_ceiling * RankUnit
                        => DataLines[i].score = <<"1", "0", "0", "0">>
                  /\ fc = RankUnit => DataLines[i].score = <<"1">>
                  /\ fc = 2 * RankUnit => DataLines[i].score = <<"3", "3", "4">>
                  /\ 2 * fc = 5 * RankUnit
                        => DataLines[i].score = <<"5", "0", "0">>
    /\ (BedWritten /\ SomeOccurrence) =>
          LET fc == enriched_kmer_to_fc[LastKmer]
          IN  /\ fc >= fc_ceiling * RankUnit
                    => (kmer_score = 1000 /\ kmer_color = 255)
              /\ fc = RankUnit => (kmer_score = 1 /\ kmer_color = 1)
              /\ fc = 2 * RankUnit => (kmer_score = 334 /\ kmer_color = 85)
              /\ 2 * fc = 5 * RankUnit => (kmer_score = 500 /\ kmer_color = 128)

\* C9 witness: a line written for a kmer of fold change exactly 4, with
\* score 1000 and color 255
C9_Witness ==
    /\ BedWritten
    /\ SomeOccurrence
    /\ enriched_kmer_to_fc[LastKmer] = fc_ceiling * RankUnit
    /\ kmer_color = 255
    /\ Len(DataLines) >= 1
    /\ DataLines[Len(DataLines)].name = LastKmer
    /\ DataLines[Len(DataLines)].score = <<"1", "0", "0", "0">>

\* C10: the score field of every data line is an integer from 0 to 1000.
C10_ScoreInRange ==
    BedWritten =>
        \A i \in 1..Len(DataLines) :
            /\ Head(DataLines[i].score) # "-"
            /\ py_int_of_str(DataLines[i].score) \in 0..1000

-----------------------------------------------------------------------------
\* Claims about repeated BED generation

\* C11: a call of output_enriched_kmers_as_bed that finds the BED file writes
\* nothing, leaves the file as it is and returns normally, so that after any
\* number of repeated calls the file is as the first generation left it.
C11_SkipIfExists ==
    [][(BedCallable /\ bed_file.exists)
          => (bed_file' = bed_file /\ pc' = "bed_skipped")]_vars

\* C11 witness: a call skipped on a file that holds data lines
C11_Witness ==
    /\ pc = "bed_skipped"
    /\ bed_file.exists
    /\ Len(bed_file.lines) > 1

-----------------------------------------------------------------------------
\* Claims about the filtered density

\* the count of kmer j that enters the density of a row
FilteredCount(row, j) ==
    IF fc_rank[j] < FC_FILTER * RankUnit THEN 0
    ELSE parse_counts(row.obs_counts)[j]

FilteredTotal(row) ==
    SumSeq([j \in 1..Len(row.obs_counts) |-> FilteredCount(row, j)])

-----------------------------------------------------------------------------
\* Claims about the order of the ranked table

\* the position of a ranked row's kmer in the loaded table
LoadPos(row) == CHOOSE i \in 1..Len(odds_ratios) : odds_ratios[i].kmer = row.kmer

Descending(df) ==
    \A i, j \in 1..Len(df) : i < j => df[i].rank >= df[j].rank

-----------------------------------------------------------------------------
\* Claims about run_meme_on_enriched_kmers

InMeme == pc \in {"meme_loop", "meme_closed", "meme_skipped", "meme_run",
                  "KeyError"}

\* the kmers a table of a length of the loop can hold
SeedKmers ==
    {KmerName(i, meme_kmer_lens[j]) :
        i \in 1..MaxSeedKmers, j \in 1..Len(meme_kmer_lens)}

\* the file holds the record of this kmer: ">kmer" and then "kmer"
HasRecord(kmer) ==
    \E i \in 1..(Len(seqs_out) - 1) :
        /\ seqs_out[i] = ">" \o kmer \o "\n"
        /\ seqs_out[i + 1] = kmer \o "\n"

\* the file consists of records of kmers of the lengths 4, 5 and 6
OnlyRecords ==
    /\ Len(seqs_out) % 2 = 0
    /\ \A i \in 1..Len(seqs_out) :
          i % 2 = 1 =>
             \E kmer \in SeedKmers :
                /\ seqs_out[i] = ">" \o kmer \o "\n"
                /\ seqs_out[i + 1] = kmer \o "\n"

\* C14 as stated: the file holds a record for exactly the kmers of the table
\* last read whose rank exceeds fold_enriched_cutoff; a kmer whose rank
\* equals the cutoff has no record.
C14_RecordIffAboveCutoff ==
    (InMeme /\ ranked_or_df # <<>>) =>
        /\ OnlyRecords
        /\ \A i \in 1..Len(ranked_or_df) :
              HasRecord(ranked_or_df[i].kmer)
                 <=> ranked_or_df[i].rank > fold_enriched_cutoff * RankUnit

\* C14 as the code has it: the file consists of records (header = kmer,
\* body = kmer) of kmers of the lengths 4, 5 and 6, and of the table last
\* read it holds a record for exactly the kmers whose rank (the maximum over
\* the concentrations) is at least fold_enriched_cutoff, a kmer whose rank
\* equals the cutoff included; these records end the file, in ranked order.
C14_RecordIffAtLeastCutoff ==
    (InMeme /\ ranked_or_df # <<>>) =>
        LET sel == {i \in 1..Len(ranked_or_df) :
                       ranked_or_df[i].rank >= fold_enriched_cutoff * RankUnit}
            n == Cardinality(sel)
            nth(j) == CHOOSE i \in sel :
                         Cardinality({h \in sel : h < i}) = j - 1
            base == Len(seqs_out) - 2 * n
        IN  /\ OnlyRecords
            /\ \A i \in 1..Len(ranked_or_df) :
                  HasRecord(ranked_or_df[i].kmer) <=> i \in sel
            /\ \A i \in 1..Len(ranked_or_df) :
                  ranked_or_df[i].rank = rank_col(ranked_or_df[i].conc, "max")
            /\ base >= 0
            /\ \A j \in 1..n :
                  /\ seqs_out[base + 2 * j - 1]
                        = ">" \o ranked_or_df[nth(j)].kmer \o "\n"
                  /\ seqs_out[base + 2 * j] = ranked_or_df[nth(j)].kmer \o "\n"

\* the loop has ended, called with method="mean"; the table last read has a
\* kmer above the cutoff and one at the cutoff, and the file holds a record of
\* each after the records of an earlier length
C14_Witness ==
    /\ pc = "meme_closed"
    /\ method = "mean"
    /\ Len(ranked_or_df) = 2
    /\ ranked_or_df[1].rank > fold_enriched_cutoff * RankUnit
    /\ ranked_or_df[2].rank = fold_enriched_cutoff * RankUnit
    /\ HasRecord(ranked_or_df[1].kmer)
    /\ HasRecord(ranked_or_df[2].kmer)
    /\ Len(seqs_out) > 4

====
